---- MODULE Spec2Model ----
(***************************************************************************)
(* Model of geogrid_to_nc.c: the WRF geogrid to NetCDF convertor.          *)
(*                                                                         *)
(* main() parses the options, allocates the field buffer, calls the        *)
(* decoder read_geogrid, writes the field with a fixed sequence of netCDF  *)
(* calls (each wrapped in the reporting macro NC), prints the per-level    *)
(* statistics and frees the buffer.                                        *)
(*                                                                         *)
(* Floating-point values are modelled as exact rationals <<num, den>> with *)
(* den > 0 in lowest terms; rounding of float/double is not modelled.      *)
(* The netCDF library is external: the status of each call is any of       *)
(* success or failure.  read_geogrid is declared nowhere in the source     *)
(* file; it is modelled from the decoder description of the specification. *)
(***************************************************************************)
EXTENDS Integers, Sequences, FiniteSets, TLC

\* ------------------------------------------------------------------ bounds
MaxN == 2          \* nx and ny range over 1..MaxN
MaxNz == 2         \* nz ranges over 0..MaxNz
MaxWordSize == 2   \* word sizes of the round-trip runs range over 1..MaxWordSize
MaxSamples == 2    \* tiles of the round-trip runs hold 1..MaxSamples samples
MaxStat == 2       \* grid extents of the statistics runs range over 1..MaxStat
MaxStatCells == 4  \* fields of the statistics runs hold at most MaxStatCells samples

\* -------------------------------------------------------- program constants
BIG_ENDIAN == 0
LITTLE_ENDIAN == 1
ByteRange == 256

\* The value of memory that was never written.
Indeterminate == "indeterminate"

\* -------------------------------------------------------------- arithmetic
Abs(a) == IF a < 0 THEN 0 - a ELSE a

RECURSIVE GCD(_, _)
GCD(a, b) == IF b = 0 THEN a ELSE GCD(b, a % b)

RECURSIVE Pow(_, _)
Pow(b, e) == IF e = 0 THEN 1 ELSE b * Pow(b, e - 1)

\* A rational in lowest terms with a positive denominator.
Rat(n, d) ==
    LET s == IF d < 0 THEN 0 - 1 ELSE 1
        g == GCD(Abs(n), Abs(d))
    IN  <<(s * n) \div g, (s * d) \div g>>

FromInt(n) == <<n, 1>>

Zero == <<0, 1>>

\* d < m on floating-point values
FLess(a, b) == a[1] * b[2] < b[1] * a[2]

\* a + d on floating-point values
FAdd(a, b) == Rat(a[1] * b[2] + b[1] * a[2], a[2] * b[2])

\* a / n, n a nonzero integer
FDivInt(a, n) == Rat(a[1], a[2] * n)

\* ------------------------------------------------------- print_statistics
\* The two inner loops over j and i of one level k: the samples of the level
\* are visited in storage order, from offset base, cnt = nx*ny of them.
LevelInit == [min |-> Zero, max |-> Zero, avg |-> Zero]

SampleStep_NoSeedClamp(acc, d) ==
    [min |-> IF FLess(d, acc.min) \/ acc.min = Zero THEN d ELSE acc.min,
     max |-> IF FLess(acc.max, d) THEN d ELSE acc.max,
     avg |-> FAdd(acc.avg, d)]

\* The body of the innermost loop for one sample d.
SampleStep(acc, d) ==
    [min |-> IF FLess(d, acc.min) THEN d ELSE acc.min,
     max |-> IF FLess(acc.max, d) THEN d ELSE acc.max,
     avg |-> FAdd(acc.avg, d)]

RECURSIVE LevelLoop(_, _, _, _)
LevelLoop(cells, base, cnt, acc) ==
    IF cnt = 0 THEN acc
    ELSE LevelLoop(cells, base + 1, cnt - 1, SampleStep(acc, cells[base + 1]))

\* The report line printed for level k (0-based loop counter).
StatLine(cells, nxv, nyv, k) ==
    LET acc == LevelLoop(cells, k * nxv * nyv, nxv * nyv, LevelInit)
    IN  [kind |-> "stat", level |-> k + 1,
         mean |-> FDivInt(acc.avg, nxv * nyv), min |-> acc.min, max |-> acc.max]

\* The lines print_statistics writes, in the order it writes them.
print_statistics(cells, nxv, nyv, nzv) ==
    [k \in 1..nzv |-> StatLine(cells, nxv, nyv, k - 1)]

\* ------------------------------------------------------------ read_geogrid
RECURSIVE Reassemble(_, _)
Reassemble(word, endian) ==
    IF word = <<>> THEN 0
    ELSE IF endian = BIG_ENDIAN
         THEN Reassemble(SubSeq(word, 1, Len(word) - 1), endian) * ByteRange
              + word[Len(word)]
         ELSE Head(word) + ByteRange * Reassemble(Tail(word), endian)

TwosComplement_NoSign(raw, ws, sgn) == raw

TwosComplement(raw, ws, sgn) ==
    IF sgn = 1 /\ raw >= Pow(ByteRange, ws) \div 2
    THEN raw - Pow(ByteRange, ws)
    ELSE raw

\* The integer value of sample number idx (0-based) of the tile.
DecodeInt(bytes, idx, sgn, endian, ws) ==
    TwosComplement(
        Reassemble(SubSeq(bytes, ws * idx + 1, ws * idx + ws), endian), ws, sgn)

\* The decoder: the status it returns and, when it succeeds, the field it
\* stores.  A file that is missing or shorter than wsize*nx*ny*nz bytes and
\* a scale that is not positive are errors; the buffer is then not written.
read_geogrid(f, nxv, nyv, nzv, sgn, endian, sc, ws) ==
    IF ~f.exists \/ sc <= 0 \/ Len(f.bytes) < ws * nxv * nyv * nzv
    THEN [status |-> 1, cells |-> <<>>]
    ELSE [status |-> 0,
          cells |-> [i \in 1..(nxv * nyv * nzv) |->
                       Rat(DecodeInt(f.bytes, i - 1, sgn, endian, ws), sc)]]

\* The tile format: v as wsize bytes, two's complement when negative.
EncodeWord(v, endian, ws) ==
    LET u == IF v < 0 THEN v + Pow(ByteRange, ws) ELSE v
        big == [i \in 1..ws |-> (u \div Pow(ByteRange, ws - i)) % ByteRange]
    IN  IF endian = BIG_ENDIAN THEN big
        ELSE [i \in 1..ws |-> big[ws + 1 - i]]

RECURSIVE EncodeTile(_, _, _)
EncodeTile(ints, endian, ws) ==
    IF ints = <<>> THEN <<>>
    ELSE EncodeWord(Head(ints), endian, ws)
         \o EncodeTile(Tail(ints), endian, ws)

Lo(ws, sgn) == IF sgn = 1 THEN 0 - (Pow(ByteRange, ws) \div 2) ELSE 0
Hi(ws, sgn) ==
    IF sgn = 1 THEN (Pow(ByteRange, ws) \div 2) - 1 ELSE Pow(ByteRange, ws) - 1

\* ------------------------------------------------------------------ inputs
\* The tile of the end-to-end example: 2x2x1 big-endian 16-bit words.
ExampleTile == <<0, 10, 0, 20, 0, 30, 0, 40>>

InputFiles == {[exists |-> FALSE, bytes |-> <<>>], [exists |-> TRUE, bytes |-> ExampleTile]}

PathValues == {"", "path"}

ScaleValues == {0, 1}

\* The word formats tried by the pipeline: the one of the example tile and a
\* signed little-endian byte format.  SpecDecode covers all formats.
WordFormats ==
    {[wsize |-> 2, issigned |-> 0, endianness |-> BIG_ENDIAN],
     [wsize |-> 1, issigned |-> 1, endianness |-> LITTLE_ENDIAN]}

\* What a read of never-written buffer memory may yield.
GarbageFloats == {FromInt(0), FromInt(0 - 7)}

\* ------------------------------------------------------------------- state
VARIABLES
    pc,          \* position of main()
    file,        \* the input file as found in the file system
    inputfile, outputfile, nx, ny, nz, wsize, issigned, endianness, scale,
    data,        \* the field buffer: [state, filled, cells]
    status,      \* status returned by read_geogrid
    ncid, dimids, varid,
    ncfile,      \* what the netCDF library accepted: [dims, vars, values]
    stdout,      \* the lines printed so far
    trace,       \* history: the calls made on the buffer and the library
    rt,          \* state of the decoder round trip
    st           \* state of the statistics runs

vars == <<pc, file, inputfile, outputfile, nx, ny, nz, wsize, issigned, endianness,
          scale, data, status, ncid, dimids, varid, ncfile, stdout, trace, rt, st>>

config == <<inputfile, outputfile, nx, ny, nz, wsize, issigned, endianness, scale>>

Idle == [stage |-> "idle"]

\* The report line of the macro NC for the call text tst.
NC(tst, ok) == [kind |-> "nc", call |-> tst, ok |-> ok]

Event(op, arg) == [op |-> op, arg |-> arg]

AfterNC_AbortOnError(step, ok, nzv) ==
    IF ~ok THEN "exit(-1)"
    ELSE CASE step = "nc_create" -> "def_dim_x"
           [] step = "def_dim_x" -> "def_dim_y"
           [] step = "def_dim_y" -> IF nzv > 1 THEN "def_dim_z" ELSE "def_var"
           [] step = "def_dim_z" -> "def_var"
           [] step = "def_var" -> "deflate"
           [] step = "deflate" -> "enddef"
           [] step = "enddef" -> "put_var"
           [] step = "put_var" -> "close"
           [] step = "close" -> "stats"

AfterNC_YBeforeX(step, ok, nzv) ==
    CASE step = "nc_create" -> "def_dim_y"
      [] step = "def_dim_y" -> "def_dim_x"
      [] step = "def_dim_x" -> IF nzv > 1 THEN "def_dim_z" ELSE "def_var"
      [] step = "def_dim_z" -> "def_var"
      [] step = "def_var" -> "deflate"
      [] step = "deflate" -> "enddef"
      [] step = "enddef" -> "put_var"
      [] step = "put_var" -> "close"
      [] step = "close" -> "stats"

\* Where main() continues after the NC statement at step: the macro only
\* prints, so the outcome ok of the call does not influence the control flow.
AfterNC(step, ok, nzv) ==
    CASE step = "nc_create" -> "def_dim_x"
      [] step = "def_dim_x" -> "def_dim_y"
      [] step = "def_dim_y" -> IF nzv > 1 THEN "def_dim_z" ELSE "def_var"
      [] step = "def_dim_z" -> "def_var"
      [] step = "def_var" -> "deflate"
      [] step = "deflate" -> "enddef"
      [] step = "enddef" -> "put_var"
      [] step = "put_var" -> "close"
      [] step = "close" -> "stats"

\* Where main() continues after read_geogrid returned status st0.
AfterRead(st0) == "nc_create"

AfterPaths_NoCheck(inp, outp) == "malloc"

\* The test of the two paths after option parsing.
AfterPaths(inp, outp) == IF inp = "" \/ outp = "" THEN "usage" ELSE "malloc"

DimSlot_Reversed(name, nzv) ==
    IF nzv > 1 THEN (CASE name = "x" -> 0 [] name = "y" -> 1 [] name = "z" -> 2)
    ELSE (CASE name = "x" -> 0 [] name = "y" -> 1)

\* The slot of dimids that receives the id of dimension name.
DimSlot(name, nzv) ==
    IF nzv > 1 THEN (CASE name = "x" -> 2 [] name = "y" -> 1 [] name = "z" -> 0)
    ELSE (CASE name = "x" -> 1 [] name = "y" -> 0)

VarRank(nzv) == IF nzv > 1 THEN 3 ELSE 2

\* -------------------------------------------------------------------- Init
MainInit ==
    /\ pc = "options"
    /\ inputfile = "" /\ outputfile = ""
    /\ nx = 1 /\ ny = 1 /\ nz = 1 /\ wsize = 4 /\ issigned = 0
    /\ endianness = BIG_ENDIAN /\ scale = 1
    /\ data = [state |-> "unallocated", filled |-> FALSE, cells |-> <<>>]
    /\ status = 0
    /\ ncid = Indeterminate
    /\ dimids = [i \in 0..2 |-> Indeterminate]
    /\ varid = Indeterminate
    /\ ncfile = [created |-> FALSE, dims |-> <<>>, vars |-> <<>>]
    /\ stdout = <<>>
    /\ trace = <<>>

Init ==
    /\ MainInit
    /\ file \in InputFiles
    /\ rt = Idle
    /\ st = Idle

mainVars == <<pc, file, inputfile, outputfile, nx, ny, nz, wsize, issigned, endianness,
              scale, data, status, ncid, dimids, varid, ncfile, stdout, trace>>

\* ----------------------------------------------------------------- actions
\* usage(): print the usage text and exit(-1).
Usage ==
    /\ stdout' = Append(stdout, [kind |-> "usage"])
    /\ pc' = "exit(-1)"

\* The getopt_long loop, all options valid: grid extents up to n, a word
\* format of formats and a scale of scales.
ParseOptionsIn(n, formats, scales) ==
    /\ pc = "options"
    /\ inputfile' \in PathValues
    /\ outputfile' \in PathValues
    /\ nx' \in 1..n
    /\ ny' \in 1..n
    /\ nz' \in 0..MaxNz
    /\ \E w \in formats :
          wsize' = w.wsize /\ issigned' = w.issigned /\ endianness' = w.endianness
    /\ scale' \in scales
    /\ pc' = "paths"
    /\ UNCHANGED <<file, data, status, ncid, dimids, varid, ncfile, stdout, trace, rt, st>>

ParseOptions == ParseOptionsIn(MaxN, WordFormats, ScaleValues)

\* The options of runs over single-column grids in the example format.
ParseColumnOptions ==
    ParseOptionsIn(1, {[wsize |-> 2, issigned |-> 0, endianness |-> BIG_ENDIAN]}, {1})

\* The getopt_long loop meets '?' or an unknown option.
ParseBadOption ==
    /\ pc = "options"
    /\ Usage
    /\ UNCHANGED <<file, config, data, status, ncid, dimids, varid, ncfile, trace, rt, st>>

\* The test of the paths; the listing printed under --verbose is not modelled.
CheckPaths ==
    /\ pc = "paths"
    /\ IF AfterPaths(inputfile, outputfile) = "usage"
       THEN Usage
       ELSE pc' = AfterPaths(inputfile, outputfile) /\ UNCHANGED stdout
    /\ UNCHANGED <<file, config, data, status, ncid, dimids, varid, ncfile, trace, rt, st>>

\* malloc of nx*ny*nz floats; the sizes tried are small and the allocation
\* succeeds.  The buffer content is indeterminate until the decoder fills it.
Malloc ==
    /\ pc = "malloc"
    /\ data' = [state |-> "allocated", filled |-> FALSE, cells |-> <<>>]
    /\ trace' = Append(trace, Event("malloc", <<nx * ny * nz>>))
    /\ pc' = "read"
    /\ UNCHANGED <<file, config, status, ncid, dimids, varid, ncfile, stdout, rt, st>>

ReadGeogrid ==
    /\ pc = "read"
    /\ LET r == read_geogrid(IF inputfile = "" THEN [exists |-> FALSE, bytes |-> <<>>] ELSE file,
                             nx, ny, nz, issigned, endianness, scale, wsize)
       IN  /\ status' = r.status
           /\ data' = IF r.status = 0
                      THEN [data EXCEPT !.filled = TRUE, !.cells = r.cells]
                      ELSE data
           /\ stdout' = Append(stdout, [kind |-> "status", value |-> r.status])
           /\ pc' = AfterRead(r.status)
    /\ trace' = Append(trace, Event("read_geogrid", <<"write">>))
    /\ UNCHANGED <<file, config, ncid, dimids, varid, ncfile, rt, st>>

NcCreate ==
    /\ pc = "nc_create"
    /\ \E ok \in BOOLEAN :
          /\ ncid' = IF ok THEN "ncid" ELSE ncid
          /\ ncfile' = IF ok THEN [ncfile EXCEPT !.created = TRUE] ELSE ncfile
          /\ stdout' = Append(stdout, NC("nc_create", ok))
          /\ pc' = AfterNC("nc_create", ok, nz)
    /\ trace' = Append(trace, Event("nc_create", <<outputfile>>))
    /\ UNCHANGED <<file, config, data, status, dimids, varid, rt, st>>

\* NC( nc_def_dim( ncid, name, len, &dimids[slot] ) )
DefDim(step, name, len) ==
    /\ pc = step
    /\ \E ok \in BOOLEAN :
          /\ dimids' = IF ok THEN [dimids EXCEPT ![DimSlot(name, nz)] = name] ELSE dimids
          /\ ncfile' = IF ok
                       THEN [ncfile EXCEPT !.dims = Append(@, [name |-> name, len |-> len])]
                       ELSE ncfile
          /\ stdout' = Append(stdout, NC("nc_def_dim", ok))
          /\ pc' = AfterNC(step, ok, nz)
    /\ trace' = Append(trace, Event("nc_def_dim", <<name, len, DimSlot(name, nz)>>))
    /\ UNCHANGED <<file, config, data, status, ncid, varid, rt, st>>

DefDimX == DefDim("def_dim_x", "x", nx)

DefDimY == DefDim("def_dim_y", "y", ny)

DefDimZ == DefDim("def_dim_z", "z", nz)

DefVar ==
    /\ pc = "def_var"
    /\ LET req == [i \in 1..VarRank(nz) |-> dimids[i - 1]]
       IN  /\ \E ok \in BOOLEAN :
                 /\ varid' = IF ok THEN "varid" ELSE varid
                 /\ ncfile' = IF ok
                              THEN [ncfile EXCEPT !.vars =
                                      Append(@, [name |-> "var", rank |-> VarRank(nz),
                                                 dims |-> req])]
                              ELSE ncfile
                 /\ stdout' = Append(stdout, NC("nc_def_var", ok))
                 /\ pc' = AfterNC("def_var", ok, nz)
           /\ trace' = Append(trace, Event("nc_def_var", <<"var", VarRank(nz), req>>))
    /\ UNCHANGED <<file, config, data, status, ncid, dimids, rt, st>>

\* A netCDF call that only reports: deflate, enddef, put_var, close.
Plain(step, fn, arg) ==
    /\ pc = step
    /\ \E ok \in BOOLEAN :
          /\ stdout' = Append(stdout, NC(fn, ok))
          /\ pc' = AfterNC(step, ok, nz)
    /\ trace' = Append(trace, Event(fn, arg))
    /\ UNCHANGED <<file, config, data, status, ncid, dimids, varid, ncfile, rt, st>>

DefVarDeflate == Plain("deflate", "nc_def_var_deflate", <<varid>>)

EndDef == Plain("enddef", "nc_enddef", <<ncid>>)

PutVar == Plain("put_var", "nc_put_var", <<"read">>)

Close == Plain("close", "nc_close", <<ncid>>)

PrintStatistics ==
    /\ pc = "stats"
    /\ \E g \in (IF data.filled THEN {Zero} ELSE GarbageFloats) :
          LET cells == IF data.filled THEN data.cells
                       ELSE [i \in 1..(nx * ny * nz) |-> g]
          IN  stdout' = stdout \o print_statistics(cells, nx, ny, nz)
    /\ trace' = Append(trace, Event("print_statistics", <<"read">>))
    /\ pc' = "free"
    /\ UNCHANGED <<file, config, data, status, ncid, dimids, varid, ncfile, rt, st>>

\* free( data ); exit(0)
FreeAndExit ==
    /\ pc = "free"
    /\ data' = [state |-> "freed", filled |-> FALSE, cells |-> <<>>]
    /\ trace' = Append(trace, Event("free", <<>>))
    /\ pc' = "exit(0)"
    /\ UNCHANGED <<file, config, status, ncid, dimids, varid, ncfile, stdout, rt, st>>

Next ==
    \/ ParseOptions
    \/ ParseBadOption
    \/ CheckPaths
    \/ Malloc
    \/ ReadGeogrid
    \/ NcCreate
    \/ DefDimX
    \/ DefDimY
    \/ DefDimZ
    \/ DefVar
    \/ DefVarDeflate
    \/ EndDef
    \/ PutVar
    \/ Close
    \/ PrintStatistics
    \/ FreeAndExit

Spec == Init /\ [][Next]_vars

\* The runs over single-column grids.
NextColumn ==
    \/ ParseColumnOptions
    \/ ParseBadOption
    \/ CheckPaths
    \/ Malloc
    \/ ReadGeogrid
    \/ NcCreate
    \/ DefDimX
    \/ DefDimY
    \/ DefDimZ
    \/ DefVar
    \/ DefVarDeflate
    \/ EndDef
    \/ PutVar
    \/ Close
    \/ PrintStatistics
    \/ FreeAndExit

\* The program is sequential and every call returns: it keeps taking steps
\* until it exits.
FairSpec == Init /\ [][NextColumn]_vars /\ WF_vars(NextColumn)

\* ------------------------------------------------------- decoder round trip
\* The integers tried for a word of ws bytes: the ends of the range, the
\* byte boundaries and a few small values.
Candidates(ws, sgn) ==
    LET marks == UNION {{Pow(ByteRange, w) - 1, Pow(ByteRange, w),
                         Pow(ByteRange, w) \div 2, (Pow(ByteRange, w) \div 2) - 1,
                         0 - (Pow(ByteRange, w) \div 2),
                         0 - ((Pow(ByteRange, w) \div 2) - 1)} : w \in 1..ws}
                 \cup {0 - 1, 0, 1, 10}
    IN  {v \in marks : Lo(ws, sgn) <= v /\ v <= Hi(ws, sgn)}

SeqsUpTo(S, n) == UNION {[1..k -> S] : k \in 1..n}

InitDecode ==
    /\ MainInit
    /\ file = [exists |-> FALSE, bytes |-> <<>>]
    /\ st = Idle
    /\ \E ws \in 1..MaxWordSize, sgn \in {0, 1}, endian \in {BIG_ENDIAN, LITTLE_ENDIAN},
          sc \in {1, 2} :
          \E ints \in SeqsUpTo(Candidates(ws, sgn), MaxSamples) :
             rt = [stage |-> "input", ws |-> ws, sgn |-> sgn, endian |-> endian,
                   sc |-> sc, ints |-> ints, bytes |-> <<>>, status |-> 0, cells |-> <<>>]

\* Write the integers as a tile in the input format.
EncodeStep ==
    /\ rt.stage = "input"
    /\ rt' = [rt EXCEPT !.stage = "encoded",
                        !.bytes = EncodeTile(rt.ints, rt.endian, rt.ws)]
    /\ UNCHANGED <<mainVars, st>>

\* Decode the tile as a grid of Len(ints) x 1 x 1 samples.
DecodeStep ==
    /\ rt.stage = "encoded"
    /\ LET r == read_geogrid([exists |-> TRUE, bytes |-> rt.bytes], Len(rt.ints), 1, 1,
                             rt.sgn, rt.endian, rt.sc, rt.ws)
       IN  rt' = [rt EXCEPT !.stage = "decoded", !.status = r.status, !.cells = r.cells]
    /\ UNCHANGED <<mainVars, st>>

NextDecode == EncodeStep \/ DecodeStep

SpecDecode == InitDecode /\ [][NextDecode]_vars

\* ---------------------------------------------------------- statistics runs
StatValues == {Rat(0 - 3, 2), FromInt(0 - 20), FromInt(10), FromInt(40)}

InitStats ==
    /\ MainInit
    /\ file = [exists |-> FALSE, bytes |-> <<>>]
    /\ rt = Idle
    /\ \E nxv \in 1..MaxStat, nyv \in 1..MaxStat, nzv \in 1..MaxStat :
          /\ nxv * nyv * nzv <= MaxStatCells
          /\ \E cells \in [1..(nxv * nyv * nzv) -> StatValues] :
                st = [stage |-> "input", nx |-> nxv, ny |-> nyv, nz |-> nzv,
                      cells |-> cells, lines |-> <<>>]

Aggregate ==
    /\ st.stage = "input"
    /\ st' = [st EXCEPT !.stage = "done",
                        !.lines = print_statistics(st.cells, st.nx, st.ny, st.nz)]
    /\ UNCHANGED <<mainVars, rt>>

NextStats == Aggregate

SpecStats == InitStats /\ [][NextStats]_vars

\* ------------------------------------------------------------- vocabulary
IsPrefix(a, b) == Len(a) <= Len(b) /\ a = SubSeq(b, 1, Len(a))

Ops(events) == [i \in 1..Len(events) |-> events[i].op]

LibOps == {"nc_create", "nc_def_dim", "nc_def_var", "nc_def_var_deflate",
           "nc_enddef", "nc_put_var", "nc_close"}

BufferOps == {"malloc", "read_geogrid", "nc_put_var", "print_statistics", "free"}

\* The netCDF calls made so far, the calls reported so far, and the
\* dimensions in the order their definitions were issued.
LibCalls == Ops(SelectSeq(trace, LAMBDA e : e.op \in LibOps))

NcLines == SelectSeq(stdout, LAMBDA l : l.kind = "nc")

Reported == [i \in 1..Len(NcLines) |-> NcLines[i].call]

DimEvents == SelectSeq(trace, LAMBDA e : e.op = "nc_def_dim")

DimOrder == [i \in 1..Len(DimEvents) |-> DimEvents[i].arg[1]]

VarEvents == SelectSeq(trace, LAMBDA e : e.op = "nc_def_var")

BufferCalls == Ops(SelectSeq(trace, LAMBDA e : e.op \in BufferOps))

StatLines == SelectSeq(stdout, LAMBDA l : l.kind = "stat")

Called(op) == \E i \in 1..Len(trace) : trace[i].op = op

Count(op) == Cardinality({i \in 1..Len(trace) : trace[i].op = op})

WriterSteps ==
    <<"nc_create">>
    \o (IF nz > 1 THEN <<"nc_def_dim", "nc_def_dim", "nc_def_dim">>
        ELSE <<"nc_def_dim", "nc_def_dim">>)
    \o <<"nc_def_var", "nc_def_var_deflate", "nc_enddef", "nc_put_var", "nc_close">>

AfterWriter == pc \in {"stats", "free", "exit(0)"}

\* ---------------------------------------------------------------------- C1
RECURSIVE DenProd(_)
DenProd(q) == IF q = <<>> THEN 1 ELSE Head(q)[2] * DenProd(Tail(q))

RECURSIVE NumSum(_, _)
NumSum(q, D) == IF q = <<>> THEN 0 ELSE Head(q)[1] * (D \div Head(q)[2]) + NumSum(Tail(q), D)

LevelSamples(k) == SubSeq(st.cells, (k - 1) * st.nx * st.ny + 1, k * st.nx * st.ny)

WithZero(q) == {q[i] : i \in 1..Len(q)} \cup {Zero}

Leq(a, b) == a[1] * b[2] <= b[1] * a[2]

\* C1: print_statistics prints one line per level, in ascending order of the
\* level; the line of level k carries the number k, the mean of the nx*ny
\* samples of the level, and the minimum and the maximum of 0 and the samples.
C1_Statistics ==
    st.stage = "done" =>
        /\ Len(st.lines) = st.nz
        /\ \A k \in 1..st.nz :
              LET q == LevelSamples(k)
                  l == st.lines[k]
              IN  /\ l.level = k
                  /\ l.mean[2] > 0
                  /\ l.mean[1] * DenProd(q) * (st.nx * st.ny) = l.mean[2] * NumSum(q, DenProd(q))
                  /\ l.min \in WithZero(q) /\ \A x \in WithZero(q) : Leq(l.min, x)
                  /\ l.max \in WithZero(q) /\ \A x \in WithZero(q) : Leq(x, l.max)

\* A field of two levels, the first all positive (min 0 reported), the
\* second all negative (max 0 reported).
C1_Witness ==
    /\ st.stage = "done" /\ st.nz = 2 /\ st.nx = 2
    /\ st.cells = <<FromInt(10), FromInt(40), FromInt(0 - 20), Rat(0 - 3, 2)>>
    /\ st.lines[1].min = Zero /\ st.lines[1].mean = FromInt(25) /\ st.lines[1].max = FromInt(40)
    /\ st.lines[2].max = Zero /\ st.lines[2].min = FromInt(0 - 20)

\* ---------------------------------------------------------------------- C2
\* C2: the steps of the dataset writer are attempted once each, in the order
\* create, dimensions, variable, compression, enddef, write, close, whatever
\* the outcome of the earlier steps; each attempt prints one report line; a
\* failure never ends the run before the remaining steps.
C2_AllStepsInOrder ==
    /\ IsPrefix(LibCalls, WriterSteps)
    /\ Reported = LibCalls
    /\ AfterWriter => LibCalls = WriterSteps
    /\ pc = "exit(-1)" => LibCalls = <<>>

\* A finished run whose first step failed and whose last step succeeded.
C2_Witness ==
    /\ pc = "exit(0)" /\ nz > 1
    /\ Len(NcLines) = 9
    /\ ~NcLines[1].ok /\ ~NcLines[2].ok /\ NcLines[9].ok

\* ---------------------------------------------------------------------- C3
\* C3: after the decoder reported a failure no step of the dataset writer and
\* no statistics report is performed.
C3_DecodeErrorStops ==
    status # 0 => ~\E i \in 1..Len(trace) : trace[i].op \in LibOps \cup {"print_statistics"}

\* ---------------------------------------------------------------------- C4
DecodeSucceeded == pc = "nc_create" /\ status = 0 /\ data.filled

StatisticsReported ==
    /\ Count("print_statistics") = 1
    /\ Len(StatLines) = nz
    /\ \E i, j \in 1..Len(trace) :
          i < j /\ trace[i].op = "nc_close" /\ trace[j].op = "print_statistics"

\* C4: once decoding succeeded the run eventually reports the statistics,
\* once and after the close of the dataset, whatever the writer steps return.
C4_ReachesStatistics == DecodeSucceeded ~> StatisticsReported

\* Decoding succeeded, every step of the writer failed, statistics printed.
C4_Witness ==
    /\ pc = "exit(0)" /\ status = 0 /\ nz = 1
    /\ Len(NcLines) = 8 /\ \A i \in 1..8 : ~NcLines[i].ok
    /\ Len(StatLines) = 1

\* ---------------------------------------------------------------------- C5
DimLen(name) ==
    {ncfile.dims[i].len : i \in {j \in 1..Len(ncfile.dims) : ncfile.dims[j].name = name}}

AllDimsDefined == Len(ncfile.dims) = (IF nz > 1 THEN 3 ELSE 2)

\* C5: the variable is requested with rank 3 over (z, y, x) of sizes
\* (nz, ny, nx) when nz > 1, and with rank 2 over (y, x) of sizes (ny, nx)
\* when nz = 1, in which case no dimension z is defined.
C5_Shape ==
    \A i \in 1..Len(VarEvents) :
        LET e == VarEvents[i]
        IN  /\ e.arg[1] = "var"
            /\ nz > 1 =>
                  /\ e.arg[2] = 3
                  /\ AllDimsDefined =>
                        /\ e.arg[3] = <<"z", "y", "x">>
                        /\ DimLen("z") = {nz} /\ DimLen("y") = {ny} /\ DimLen("x") = {nx}
            /\ nz = 1 =>
                  /\ e.arg[2] = 2
                  /\ ~\E j \in 1..Len(DimOrder) : DimOrder[j] = "z"
                  /\ DimLen("z") = {}
                  /\ AllDimsDefined =>
                        /\ e.arg[3] = <<"y", "x">>
                        /\ DimLen("y") = {ny} /\ DimLen("x") = {nx}

C5_Witness ==
    /\ Len(ncfile.vars) = 1 /\ nz = 2 /\ nx = 2 /\ ny = 1
    /\ ncfile.vars[1].rank = 3 /\ ncfile.vars[1].dims = <<"z", "y", "x">>
    /\ Len(ncfile.dims) = 3

\* ---------------------------------------------------------------------- C6
\* C6 as stated: the dimensions are defined in the order z, y, x when nz > 1
\* and y, x when nz = 1, all of them before the variable.
C6_OrderZYX ==
    /\ nz > 1 => IsPrefix(DimOrder, <<"z", "y", "x">>)
    /\ nz = 1 => IsPrefix(DimOrder, <<"y", "x">>)
    /\ Called("nc_def_var") => Len(DimOrder) = (IF nz > 1 THEN 3 ELSE 2)

\* C6 amended: the dimensions are defined in the order x, y, z when nz > 1
\* and x, y when nz = 1, all of them before the variable.
C6_OrderXYZ ==
    /\ nz > 1 => IsPrefix(DimOrder, <<"x", "y", "z">>)
    /\ nz = 1 => IsPrefix(DimOrder, <<"x", "y">>)
    /\ nz >= 1 /\ Called("nc_def_var") =>
          /\ Len(DimOrder) = (IF nz > 1 THEN 3 ELSE 2)
          /\ \A i, j \in 1..Len(trace) :
                trace[i].op = "nc_def_dim" /\ trace[j].op = "nc_def_var" => i < j

C6_Witness ==
    /\ Called("nc_def_var") /\ nz = 2 /\ DimOrder = <<"x", "y", "z">>

\* ---------------------------------------------------------------------- C7
\* C7: with a scale that is not positive the run ends before the decoder is
\* invoked; neither the writer nor the statistics run.
C7_ScaleRejected ==
    scale <= 0 =>
        ~\E i \in 1..Len(trace) :
            trace[i].op \in LibOps \cup {"read_geogrid", "print_statistics"}

C9_MissingPath ==
    (pc \notin {"options", "paths"} /\ (inputfile = "" \/ outputfile = "")) =>
        /\ pc = "exit(-1)"
        /\ stdout = <<[kind |-> "usage"]>>
        /\ trace = <<>>
        /\ data.state = "unallocated"

\* The usage exit taken by the path test with only the input path missing.
C9_Witness ==
    /\ pc = "exit(-1)" /\ inputfile = "" /\ outputfile = "path"
    /\ stdout = <<[kind |-> "usage"]>>

\* --------------------------------------------------------------------- C10
BufferLife == <<"malloc", "read_geogrid", "nc_put_var", "print_statistics", "free">>

PathsValid == inputfile # "" /\ outputfile # ""

\* C10: in a run with valid paths the buffer is allocated once, written by
\* the decoder only, then read by the bulk write and by the statistics, then
\* freed once; nothing touches it before the allocation or after the free.
C10_BufferLifetime ==
    /\ IsPrefix(BufferCalls, BufferLife)
    /\ data.state = "allocated" <=> (Called("malloc") /\ ~Called("free"))
    /\ data.state = "freed" <=> Called("free")
    /\ data.filled => Called("read_geogrid")
    /\ (PathsValid /\ pc \notin {"options", "paths", "malloc"}) => Count("malloc") = 1
    /\ (PathsValid /\ pc \in {"exit(0)", "exit(-1)"}) => BufferCalls = BufferLife

C10_Witness ==
    /\ pc = "exit(0)" /\ data.state = "freed" /\ status = 0
    /\ BufferCalls = BufferLife
====
